---- MODULE Spec2Model ----
(***************************************************************************)
(* State-machine model of obd_reader.py: the mode selector (main), the     *)
(* terminal front-end (terminal_mode) and the dashboard front-end          *)
(* (OBDReaderGUI) with its background polling thread (read_data_loop).     *)
(*                                                                         *)
(* The main thread of the process is one sequential process whose position *)
(* is pc.  In dashboard mode it is Tk's event loop: pc = "idle" means the  *)
(* loop waits for an event, every other value is a position inside a       *)
(* handler.  Each started threading.Thread is one entry of threads.  The   *)
(* external python-OBD library is the environment: obd.OBD(...) raises or  *)
(* returns a Session that is or is not connected, a query returns a        *)
(* magnitude, returns no value, or raises, and the vehicle link can drop.  *)
(***************************************************************************)
EXTENDS Integers, Sequences, FiniteSets, TLC

\* ------------------------------------------------------------------ bounds
\* the events of one run: a connection phase, a poll cycle started, a query
\* that raises, a query without a value and a lost vehicle link count one each
Budget     == 2
MaxPending == 1      \* root.after callbacks pending at once
MaxCalls   == 2      \* direct disconnect() calls in a row

\* ------------------------------------------------------- program constants
None == 0            \* Python's None for self.connection / self.data_thread

\* the dashboard's parameters, in the order of the commands dict
Params ==
  << "rpm", "speed", "coolant_temp", "throttle_pos",
     "engine_load", "intake_temp", "fuel_level", "fuel_pressure" >>

\* the parameters terminal_mode queries, in the order of its statements
TerminalParams ==
  << "rpm", "speed", "coolant_temp", "throttle_pos",
     "engine_load", "intake_temp", "fuel_level" >>

ParamSet == { Params[k] : k \in 1..Len(Params) }

\* magnitudes a response may carry, in tenths of the unit (905 is 90.5)
Magnitudes == { 905 }

Placeholder == << "--" >>
NotAvailable == << "N/A" >>
NoData == << "No data" >>

\* ------------------------------------------------------------- formatting
\* n / d rounded to the nearest integer, ties to even (Python's format());
\* \div floors, so this also serves negative magnitudes
RoundDiv(n, d) ==
  LET q == n \div d
      r == n % d
  IN  IF 2 * r < d THEN q
      ELSE IF 2 * r > d THEN q + 1
      ELSE IF q % 2 = 0 THEN q ELSE q + 1

\* celsius * 9/5 + 32, in hundredths of a degree for celsius in tenths
Fahrenheit100(c10) == c10 * 18 + 3200

\* the dashboard's formatted string for a magnitude m10 (in tenths)
FormatValue(param, m10) ==
  IF param \in { "rpm", "speed" }
    THEN << "%.0f", RoundDiv(m10, 10) >>
  ELSE IF param \in { "coolant_temp", "intake_temp" }
    THEN << "%.1fC(%.1fF)", m10, RoundDiv(Fahrenheit100(m10), 10) >>
  ELSE << "%.1f", m10 >>

\* the text terminal_mode prints after a parameter's label
TerminalText(param, m10) ==
  IF param \in { "rpm", "speed" }
    THEN << "%.0f", RoundDiv(m10, 10) >>
  ELSE IF param \in { "coolant_temp", "intake_temp" }
    THEN << "%.1fC(%.1fF)", m10, RoundDiv(Fahrenheit100(m10), 10) >>
  ELSE << "%.1f", m10 >>

\* ------------------------------------------------------------------ state
VARIABLES
  args,          \* parsed command line and environment
  pc,            \* position of the main thread
  sessions,      \* every Session obd.OBD created: [open, connected]
  connection,    \* terminal_mode's connection / self.connection (index or None)
  attempts,      \* obd.OBD calls of the connection phase in progress
  is_running,    \* self.is_running
  data_thread,   \* self.data_thread (index into threads or None)
  threads,       \* every read_data_loop thread started
  afterq,        \* root.after(0, var.set, value) callbacks not yet run
  data_vars,     \* self.data_vars: parameter name -> displayed string
  status_label,  \* text of self.status_label
  btn_text,      \* text of self.connect_btn
  btn_state,     \* state of self.connect_btn
  time_label,    \* text of self.time_label: 0 is "", 1 and 2 successive stamps
  ts_pending,    \* pending root.after(1000, update_timestamp) callbacks
  tidx,          \* terminal_mode: next parameter of the current cycle
  report,        \* terminal_mode: lines printed in the current cycle
  exitkind,      \* how the process ended
  left,          \* how many more budgeted events the run may see
  discRow        \* direct disconnect() calls in a row, no other UI event since

vars ==
  << args, pc, sessions, connection, attempts, is_running, data_thread,
     threads, afterq, data_vars, status_label, btn_text, btn_state,
     time_label, ts_pending, tidx, report, exitkind, discRow, left >>

guiVars ==
  << is_running, data_thread, threads, afterq, data_vars, status_label,
     btn_text, btn_state, time_label, ts_pending, discRow >>

termVars == << tidx, report >>

envVars == << left >>

\* ---------------------------------------------------- the external library
\* is_connected() of Session s
IsConnected(s) == sessions[s].connected

\* `x and x.is_connected()` for a connection variable x
ConnAndConnected(c) == c # None /\ IsConnected(c)

\* the Session list after obd.OBD(port) returned a Session
Created(conn) ==
  Append(sessions, [open |-> TRUE, connected |-> conn])

\* the Session list after s.close(): closed, and no longer connected
Closed(ss, s) ==
  [ss EXCEPT ![s] = [@ EXCEPT !.open = FALSE, !.connected = FALSE]]

OpenSessions == { s \in 1..Len(sessions) : sessions[s].open }

\* one obd.OBD call of a connection phase: the port asked for and the
\* Session it returned (None when it raised)
Attempt(port, s) == [port |-> port, sess |-> s]

\* ------------------------------------------------------------------- Init
ArgSpace ==
  [terminal : BOOLEAN, gui : BOOLEAN, display : BOOLEAN, gui_available : BOOLEAN]

\* the runs explored in depth: one flag given on a desktop, --terminal with
\* the toolkit installed, --gui with and without it
RunArgs ==
  { a \in ArgSpace :
      a.display /\ (a.terminal # a.gui) /\ (a.terminal => a.gui_available) }

InitWith(A, events) ==
  /\ args \in A
  /\ pc = "main"
  /\ sessions = << >>
  /\ connection = None
  /\ attempts = << >>
  /\ is_running = FALSE
  /\ data_thread = None
  /\ threads = << >>
  /\ afterq = << >>
  /\ data_vars = << >>
  /\ status_label = ""
  /\ btn_text = ""
  /\ btn_state = ""
  /\ time_label = 0
  /\ ts_pending = 0
  /\ tidx = 0
  /\ report = << >>
  /\ exitkind = "running"
  /\ discRow = 0
  /\ left = events

Init == InitWith(RunArgs, Budget)

\* the same runs, one event longer
DeepInit == InitWith(RunArgs, Budget + 1)

\* every command line in every environment
ModeInit == InitWith(ArgSpace, Budget)

\* ------------------------------------------------------------------- main
\* SelectedMode with --gui tested before --terminal
SelectedModeGuiFirst(a) ==
  IF a.gui THEN "gui_mode"
  ELSE IF a.terminal THEN "terminal_mode"
  ELSE IF a.gui_available /\ a.display THEN "gui_mode"
  ELSE "terminal_mode"

\* main(): the mode the flags and the environment select
SelectedMode(a) ==
  IF a.terminal THEN "terminal_mode"
  ELSE IF a.gui THEN "gui_mode"
  ELSE IF a.gui_available /\ a.display THEN "gui_mode"
  ELSE "terminal_mode"

Main ==
  /\ pc = "main"
  /\ pc' = SelectedMode(args)
  /\ UNCHANGED << args, sessions, connection, attempts, exitkind >>
  /\ UNCHANGED << guiVars, termVars, envVars >>

\* the text of self.time_label after one more stamp: a clock reading that
\* differs from the one before
Stamped(label) == IF label = 1 THEN 2 ELSE 1

\* the dashboard as __init__, setup_ui, create_data_displays and the first
\* update_timestamp leave it, with mainloop entered
DashboardBuilt ==
  /\ pc' = "idle"
  /\ data_vars' = [p \in ParamSet |-> Placeholder]
  /\ status_label' = "Disconnected"
  /\ btn_text' = "Connect"
  /\ btn_state' = "normal"
  /\ time_label' = Stamped(time_label)
  /\ ts_pending' = 1
  /\ UNCHANGED exitkind

\* gui_mode(): refuses without the toolkit, else builds the dashboard and
\* enters mainloop; without a display tk.Tk() may raise TclError instead
GuiMode ==
  /\ pc = "gui_mode"
  /\ IF ~args.gui_available
       THEN /\ pc' = "exited"
            /\ exitkind' = "gui_unavailable"
            /\ UNCHANGED << data_vars, status_label, btn_text, btn_state,
                            time_label, ts_pending >>
       ELSE \/ DashboardBuilt
            \/ /\ ~args.display
               /\ pc' = "exited"
               /\ exitkind' = "no_display"
               /\ UNCHANGED << data_vars, status_label, btn_text, btn_state,
                               time_label, ts_pending >>
  /\ UNCHANGED << args, sessions, connection, attempts, is_running,
                  data_thread, threads, afterq, discRow >>
  /\ UNCHANGED << termVars, envVars >>

\* ------------------------------------------------------------ environment
\* the vehicle link of a connected Session drops (ignition off, cable pulled)
LinkLost ==
  /\ pc # "exited"
  /\ left > 0
  /\ \E s \in OpenSessions :
       /\ sessions[s].connected
       /\ sessions' = [sessions EXCEPT ![s] = [@ EXCEPT !.connected = FALSE]]
  /\ left' = left - 1
  /\ UNCHANGED << args, pc, connection, attempts, exitkind >>
  /\ UNCHANGED << guiVars, termVars >>

\* what connection.query may answer on Session s: it raises, the response
\* carries no value, or it carries a magnitude; a Session that is not
\* connected never yields a magnitude
Raised == << "raise" >>
Absent == << "none" >>
Value(m10) == << "value", m10 >>

QueryOutcomes(s) ==
  (IF left > 0 THEN { Raised } ELSE {})
    \cup (IF left > 0 \/ ~IsConnected(s) THEN { Absent } ELSE {})
    \cup (IF IsConnected(s) THEN { Value(m) : m \in Magnitudes } ELSE {})

\* the budget after outcome r on Session s
CountOutcome(r, s) ==
  left' = IF r = Raised \/ (r = Absent /\ IsConnected(s))
            THEN left - 1 ELSE left

\* ---------------------------------------------------------- terminal_mode
TerminalPcs ==
  { "terminal_mode", "t_auto", "t_check", "t_started",
    "t_loop", "t_cycle", "t_sleep", "t_finally" }

\* the positions inside the try block of the polling loop
TerminalTryPcs == { "t_loop", "t_cycle", "t_sleep" }

\* lines 26-35: the fixed device path, any exception swallowed
T_Fixed ==
  /\ pc = "terminal_mode"
  /\ left > 0
  /\ left' = left - 1
  /\ pc' = "t_auto"
  /\ \/ /\ attempts' = Append(attempts, Attempt("fixed", None))  \* raised
        /\ UNCHANGED << sessions, connection >>
     \/ \E conn \in BOOLEAN :
          /\ sessions' = Created(conn)
          /\ connection' = Len(sessions')
          /\ attempts' = Append(attempts, Attempt("fixed", connection'))
  /\ UNCHANGED << args, exitkind >>
  /\ UNCHANGED << guiVars, termVars >>

\* lines 37-40: auto-detection when the first attempt gave no connected Session
T_Auto ==
  /\ pc = "t_auto"
  /\ IF ~ConnAndConnected(connection)
       THEN \/ /\ pc' = "exited"                         \* obd.OBD raised
               /\ exitkind' = "crash"
               /\ attempts' = Append(attempts, Attempt("auto", None))
               /\ UNCHANGED << sessions, connection >>
            \/ \E conn \in BOOLEAN :
                    /\ sessions' = Created(conn)
                    /\ connection' = Len(sessions')
                    /\ attempts' = Append(attempts, Attempt("auto", connection'))
                    /\ pc' = "t_check"
                    /\ UNCHANGED exitkind
       ELSE /\ pc' = "t_check"
            /\ UNCHANGED << sessions, connection, attempts, exitkind >>
  /\ UNCHANGED args
  /\ UNCHANGED << guiVars, termVars, envVars >>

\* lines 42-53: give up, or announce the connection and sleep two seconds
T_Check ==
  /\ pc = "t_check"
  /\ IF ~IsConnected(connection)
       THEN pc' = "exited" /\ exitkind' = "connect_failed"
       ELSE pc' = "t_started" /\ UNCHANGED exitkind
  /\ UNCHANGED << args, sessions, connection, attempts >>
  /\ UNCHANGED << guiVars, termVars, envVars >>

\* line 53 -> 55: the sleep ends and the try block is entered
T_EnterLoop ==
  /\ pc = "t_started"
  /\ pc' = "t_loop"
  /\ UNCHANGED << args, sessions, connection, attempts, exitkind >>
  /\ UNCHANGED << guiVars, termVars, envVars >>

\* lines 56-59: top of `while True`, the screen is cleared
T_CycleStart ==
  /\ pc = "t_loop"
  /\ left > 0
  /\ left' = left - 1
  /\ pc' = "t_cycle"
  /\ tidx' = 1
  /\ report' = << >>
  /\ UNCHANGED << args, sessions, connection, attempts, exitkind >>
  /\ UNCHANGED guiVars

\* lines 61-117: one query and the line printed for it; an exception leaves
\* the loop for the handlers of lines 127-131
T_Query ==
  /\ pc = "t_cycle"
  /\ tidx <= Len(TerminalParams)
  /\ \E r \in QueryOutcomes(connection) :
       /\ CountOutcome(r, connection)
       /\ IF r = Raised
            THEN /\ pc' = "t_finally"
                 /\ exitkind' = "error"
                 /\ UNCHANGED << tidx, report >>
            ELSE /\ report' = Append(report,
                      [param |-> TerminalParams[tidx],
                       text |-> IF r = Absent THEN NoData
                                ELSE TerminalText(TerminalParams[tidx], r[2])])
                 /\ tidx' = tidx + 1
                 /\ pc' = IF tidx = Len(TerminalParams) THEN "t_sleep" ELSE "t_cycle"
                 /\ UNCHANGED exitkind
  /\ UNCHANGED << args, sessions, connection, attempts >>
  /\ UNCHANGED guiVars

\* lines 119-123: the footer is printed and the cycle sleeps one second
T_Sleep ==
  /\ pc = "t_sleep"
  /\ pc' = "t_loop"
  /\ UNCHANGED << args, sessions, connection, attempts, exitkind >>
  /\ UNCHANGED << guiVars, termVars, envVars >>

\* Ctrl+C: caught by line 125 inside the try block, uncaught before it
T_Interrupt ==
  /\ pc \in TerminalPcs \ { "t_finally" }
  /\ IF pc \in TerminalTryPcs
       THEN pc' = "t_finally" /\ exitkind' = "interrupt"
       ELSE pc' = "exited" /\ exitkind' = "interrupt_uncaught"
  /\ UNCHANGED << args, sessions, connection, attempts >>
  /\ UNCHANGED << guiVars, termVars, envVars >>

\* lines 129-131: finally
T_Finally ==
  /\ pc = "t_finally"
  /\ sessions' = Closed(sessions, connection)
  /\ pc' = "exited"
  /\ UNCHANGED << args, connection, attempts, exitkind >>
  /\ UNCHANGED << guiVars, termVars, envVars >>

TerminalNext ==
  \/ T_Fixed \/ T_Auto \/ T_Check \/ T_EnterLoop \/ T_CycleStart
  \/ T_Query \/ T_Sleep \/ T_Interrupt \/ T_Finally

\* -------------------------------------------- OBDReaderGUI.read_data_loop
\* no response held: `response` is unbound or no longer used
NoResponse == << >>

\* a thread as threading.Thread(target=self.read_data_loop).start() leaves it;
\* sess is the Session self.connection named when the thread was started,
\* resp the outcome of the query the thread has just left
NewThread(s) ==
  [pc |-> "while", i |-> 0, sess |-> s, q |-> None, resp |-> NoResponse,
   log |-> << >>, pub |-> << >>]

\* the same thread once read_data_loop has returned
EndedThread(s) ==
  [pc |-> "done", i |-> 0, sess |-> s, q |-> None, resp |-> NoResponse,
   log |-> << >>, pub |-> << >>]

Alive(t) == threads[t].pc # "done"

AliveThreads == { t \in 1..Len(threads) : Alive(t) }

\* line 328: the loop condition
LoopCondition == is_running /\ ConnAndConnected(connection)

\* line 328: the loop is entered for another cycle, or left for good
W_While(t) ==
  /\ pc # "exited"
  /\ threads[t].pc = "while"
  /\ IF LoopCondition
       THEN /\ left > 0
            /\ left' = left - 1
            /\ threads' = [threads EXCEPT ![t] =
                 [@ EXCEPT !.pc = "for", !.i = 1,
                           !.log = << >>, !.pub = << >>]]
       ELSE /\ threads' = [threads EXCEPT ![t] = EndedThread(@.sess)]
            /\ UNCHANGED left
  /\ UNCHANGED << args, pc, sessions, connection, attempts, exitkind >>
  /\ UNCHANGED << is_running, data_thread, afterq, data_vars, status_label,
                  btn_text, btn_state, time_label, ts_pending, discRow >>
  /\ UNCHANGED termVars

\* W_For without the run-flag check of lines 331-332
W_ForWithoutFlagCheck(t) ==
  /\ pc # "exited"
  /\ threads[t].pc = "for"
  /\ threads' = [threads EXCEPT ![t] = [@ EXCEPT !.resp = NoResponse, !.pc =
       IF threads[t].i > Len(Params) THEN "sleep" ELSE "call"]]
  /\ UNCHANGED << args, pc, sessions, connection, attempts, exitkind >>
  /\ UNCHANGED << is_running, data_thread, afterq, data_vars, status_label,
                  btn_text, btn_state, time_label, ts_pending, discRow >>
  /\ UNCHANGED << termVars, envVars >>

\* lines 330-332: the next parameter of the cycle and the run-flag check in
\* front of its query; both the exhausted loop and `break` fall through to
\* the sleep of line 356
W_For(t) ==
  /\ pc # "exited"
  /\ threads[t].pc = "for"
  /\ threads' = [threads EXCEPT ![t] = [@ EXCEPT !.resp = NoResponse, !.pc =
       IF threads[t].i > Len(Params) \/ ~is_running THEN "sleep" ELSE "call"]]
  /\ UNCHANGED << args, pc, sessions, connection, attempts, exitkind >>
  /\ UNCHANGED << is_running, data_thread, afterq, data_vars, status_label,
                  btn_text, btn_state, time_label, ts_pending, discRow >>
  /\ UNCHANGED << termVars, envVars >>

\* line 334: self.connection is read and query is entered on that Session;
\* with self.connection None the attribute lookup raises into line 358
W_Call(t) ==
  /\ pc # "exited"
  /\ threads[t].pc = "call"
  /\ threads' = [threads EXCEPT ![t] =
       IF connection = None
         THEN [@ EXCEPT !.pc = "except"]
         ELSE [@ EXCEPT !.pc = "query", !.q = connection,
                        !.log = Append(@, Params[threads[t].i])]]
  /\ UNCHANGED << args, pc, sessions, connection, attempts, exitkind >>
  /\ UNCHANGED << is_running, data_thread, afterq, data_vars, status_label,
                  btn_text, btn_state, time_label, ts_pending, discRow >>
  /\ UNCHANGED << termVars, envVars >>

\* Published with the placeholder for a response without a value
PublishedAbsentAsPlaceholder(param, r) ==
  IF r = Absent THEN Placeholder ELSE FormatValue(param, r[2])

\* lines 336-350: the string published for outcome r of parameter param
Published(param, r) ==
  IF r = Absent THEN NotAvailable ELSE FormatValue(param, r[2])

\* W_Return with the thread calling var.set itself instead of root.after
W_ReturnSetsDirectly(t) ==
  /\ pc # "exited"
  /\ threads[t].pc = "query"
  /\ \E r \in QueryOutcomes(threads[t].q) :
       /\ CountOutcome(r, threads[t].q)
       /\ IF r = Raised \/ pc = "destroyed"
            THEN /\ threads' = [threads EXCEPT ![t] =
                      [@ EXCEPT !.pc = "except", !.q = None, !.resp = r]]
                 /\ UNCHANGED data_vars
            ELSE /\ data_vars' = [data_vars EXCEPT ![Params[threads[t].i]] =
                      Published(Params[threads[t].i], r)]
                 /\ threads' = [threads EXCEPT ![t] =
                      [@ EXCEPT !.pc = "for", !.q = None, !.i = @ + 1,
                                !.resp = r,
                                !.pub = Append(@, Params[threads[t].i])]]
  /\ UNCHANGED << args, pc, sessions, connection, attempts, exitkind >>
  /\ UNCHANGED << is_running, data_thread, afterq, status_label,
                  btn_text, btn_state, time_label, ts_pending, discRow >>
  /\ UNCHANGED termVars

\* lines 334-354: the query returns or raises; a returned response is
\* formatted and handed to the event loop with root.after(0, var.set, value),
\* which itself raises once the window is destroyed
W_Return(t) ==
  /\ pc # "exited"
  /\ threads[t].pc = "query"
  /\ \E r \in QueryOutcomes(threads[t].q) :
       /\ CountOutcome(r, threads[t].q)
       /\ IF r = Raised \/ pc = "destroyed"
            THEN /\ threads' = [threads EXCEPT ![t] =
                      [@ EXCEPT !.pc = "except", !.q = None, !.resp = r]]
                 /\ UNCHANGED afterq
            ELSE /\ Len(afterq) < MaxPending
                 /\ afterq' = Append(afterq,
                      [param |-> Params[threads[t].i],
                       value |-> Published(Params[threads[t].i], r)])
                 /\ threads' = [threads EXCEPT ![t] =
                      [@ EXCEPT !.pc = "for", !.q = None, !.i = @ + 1,
                                !.resp = r,
                                !.pub = Append(@, Params[threads[t].i])]]
  /\ UNCHANGED << args, pc, sessions, connection, attempts, exitkind >>
  /\ UNCHANGED << is_running, data_thread, data_vars, status_label,
                  btn_text, btn_state, time_label, ts_pending, discRow >>
  /\ UNCHANGED termVars

\* lines 356 and 358-360: the sleep after a cycle or after a caught exception
W_Sleep(t) ==
  /\ pc # "exited"
  /\ threads[t].pc \in { "sleep", "except" }
  /\ threads' = [threads EXCEPT ![t] =
       [@ EXCEPT !.pc = "while", !.resp = NoResponse]]
  /\ UNCHANGED << args, pc, sessions, connection, attempts, exitkind >>
  /\ UNCHANGED << is_running, data_thread, afterq, data_vars, status_label,
                  btn_text, btn_state, time_label, ts_pending, discRow >>
  /\ UNCHANGED << termVars, envVars >>

WorkerNext ==
  \E t \in 1..Len(threads) :
    W_While(t) \/ W_For(t) \/ W_Call(t) \/ W_Return(t) \/ W_Sleep(t)

\* ------------------------------------------------- OBDReaderGUI, UI thread
AllPlaceholder == [p \in ParamSet |-> Placeholder]

\* the displayed values after the pending callbacks q have run, in order
RECURSIVE Applied(_, _)
Applied(dv, q) ==
  IF q = << >> THEN dv
  ELSE Applied([dv EXCEPT ![Head(q).param] = Head(q).value], Tail(q))

\* lines 253-254: the branch toggle_connection takes
ToggleDisconnects == ConnAndConnected(connection)

\* line 300: disconnect() clears the run-flag first
DisconnectBegin ==
  /\ is_running' = FALSE
  /\ pc' = "d_join"
  /\ UNCHANGED << args, sessions, connection, attempts, exitkind >>
  /\ UNCHANGED << data_thread, threads, afterq, data_vars, status_label,
                  btn_text, btn_state, time_label, ts_pending >>
  /\ UNCHANGED << termVars, envVars >>

\* the connect button is pressed while the Session is connected:
\* toggle_connection calls disconnect()
ToggleDisconnect ==
  /\ pc = "idle"
  /\ btn_state = "normal"
  /\ ToggleDisconnects
  /\ discRow' = 0
  /\ DisconnectBegin

\* disconnect() called directly, as a caller of the class or a test does
CallDisconnect ==
  /\ pc = "idle"
  /\ discRow < MaxCalls
  /\ discRow' = discRow + 1
  /\ DisconnectBegin

\* the connect button is pressed otherwise: toggle_connection calls
\* connect(), lines 259-263; root.update() runs every pending callback, and
\* the timestamp tick when it is due
ToggleConnect ==
  /\ pc = "idle"
  /\ btn_state = "normal"
  /\ ~ToggleDisconnects
  /\ left > 0
  /\ left' = left - 1
  /\ status_label' = "Connecting"
  /\ btn_state' = "disabled"
  /\ data_vars' = Applied(data_vars, afterq)
  /\ afterq' = << >>
  /\ attempts' = << >>
  /\ discRow' = 0
  /\ pc' = "c_fixed"
  /\ UNCHANGED << args, sessions, connection, exitkind >>
  /\ time_label' \in { time_label, Stamped(time_label) }
  /\ UNCHANGED << is_running, data_thread, threads, btn_text, ts_pending >>
  /\ UNCHANGED termVars

\* line 267: the fixed device path
C_Fixed ==
  /\ pc = "c_fixed"
  /\ \/ /\ pc' = "c_retry"                             \* obd.OBD raised
        /\ attempts' = Append(attempts, Attempt("fixed", None))
        /\ UNCHANGED << sessions, connection >>
     \/ \E conn \in BOOLEAN :
          /\ sessions' = Created(conn)
          /\ connection' = Len(sessions')
          /\ attempts' = Append(attempts, Attempt("fixed", connection'))
          /\ pc' = "c_fixed_check"
  /\ UNCHANGED << args, exitkind >>
  /\ UNCHANGED << guiVars, termVars, envVars >>

\* lines 268-269: a Session that is not connected is closed before the
\* second attempt
C_FixedCheck ==
  /\ pc = "c_fixed_check"
  /\ IF ~IsConnected(connection)
       THEN sessions' = Closed(sessions, connection) /\ pc' = "c_auto"
       ELSE UNCHANGED sessions /\ pc' = "c_check"
  /\ UNCHANGED << args, connection, attempts, exitkind >>
  /\ UNCHANGED << guiVars, termVars, envVars >>

\* line 270: auto-detection inside the inner try
C_Auto ==
  /\ pc = "c_auto"
  /\ \/ /\ pc' = "c_retry"                             \* obd.OBD raised
        /\ attempts' = Append(attempts, Attempt("auto", None))
        /\ UNCHANGED << sessions, connection >>
     \/ \E conn \in BOOLEAN :
          /\ sessions' = Created(conn)
          /\ connection' = Len(sessions')
          /\ attempts' = Append(attempts, Attempt("auto", connection'))
          /\ pc' = "c_check"
  /\ UNCHANGED << args, exitkind >>
  /\ UNCHANGED << guiVars, termVars, envVars >>

\* C_Retry whose error handler leaves the button as it is
C_RetryKeepsDisabled ==
  /\ pc = "c_retry"
  /\ \/ /\ pc' = "idle"
        /\ status_label' = "Error"
        /\ attempts' = << >>
        /\ UNCHANGED << sessions, connection >>
     \/ \E conn \in BOOLEAN :
          /\ sessions' = Created(conn)
          /\ connection' = Len(sessions')
          /\ attempts' = Append(attempts, Attempt("auto", connection'))
          /\ pc' = "c_check"
          /\ UNCHANGED status_label
  /\ UNCHANGED << args, exitkind >>
  /\ UNCHANGED << is_running, data_thread, threads, afterq, data_vars,
                  btn_text, btn_state, time_label, ts_pending, discRow >>
  /\ UNCHANGED << termVars, envVars >>

\* lines 271-272: the bare except of the inner try runs auto-detection; if
\* that raises, the outer handler of lines 294-297 reports the error
C_Retry ==
  /\ pc = "c_retry"
  /\ \/ /\ pc' = "idle"                                \* obd.OBD raised
        /\ status_label' = "Error"
        /\ btn_state' = "normal"
        /\ attempts' = << >>
        /\ UNCHANGED << sessions, connection >>
     \/ \E conn \in BOOLEAN :
          /\ sessions' = Created(conn)
          /\ connection' = Len(sessions')
          /\ attempts' = Append(attempts, Attempt("auto", connection'))
          /\ pc' = "c_check"
          /\ UNCHANGED << status_label, btn_state >>
  /\ UNCHANGED << args, exitkind >>
  /\ UNCHANGED << is_running, data_thread, threads, afterq, data_vars,
                  btn_text, time_label, ts_pending, discRow >>
  /\ UNCHANGED << termVars, envVars >>

\* lines 274-292: the polling thread is started on a connected Session,
\* otherwise the failure is reported
C_Check ==
  /\ pc = "c_check"
  /\ pc' = "idle"
  /\ IF IsConnected(connection)
       THEN /\ status_label' = "Connected"
            /\ btn_text' = "Disconnect"
            /\ btn_state' = "normal"
            /\ is_running' = TRUE
            /\ threads' = Append(threads, NewThread(connection))
            /\ data_thread' = Len(threads')
       ELSE /\ status_label' = "Failed"
            /\ btn_state' = "normal"
            /\ UNCHANGED << btn_text, is_running, threads, data_thread >>
  /\ attempts' = << >>
  /\ UNCHANGED << args, sessions, connection, exitkind >>
  /\ UNCHANGED << afterq, data_vars, time_label, ts_pending, discRow >>
  /\ UNCHANGED << termVars, envVars >>

\* JoinReturns with the timeout dropped: join() waits for the thread's end
JoinWithoutTimeout ==
  IF data_thread = None THEN TRUE ELSE ~Alive(data_thread)

\* lines 301-302: join(timeout=2) returns when the thread has ended, or
\* after two seconds while the thread is held up inside a query
JoinReturns ==
  IF data_thread = None THEN TRUE
  ELSE ~Alive(data_thread) \/ threads[data_thread].pc = "query"

D_Join ==
  /\ pc = "d_join"
  /\ JoinReturns
  /\ pc' = "d_close"
  /\ UNCHANGED << args, sessions, connection, attempts, exitkind >>
  /\ UNCHANGED << guiVars, termVars, envVars >>

\* D_Close that closes the Session but keeps self.connection
D_CloseKeepsConnection ==
  /\ pc = "d_close"
  /\ IF connection # None
       THEN sessions' = Closed(sessions, connection)
       ELSE UNCHANGED sessions
  /\ status_label' = "Disconnected"
  /\ btn_text' = "Connect"
  /\ btn_state' = "normal"
  /\ pc' = "d_reset"
  /\ UNCHANGED << args, connection, attempts, exitkind >>
  /\ UNCHANGED << is_running, data_thread, threads, afterq, data_vars,
                  time_label, ts_pending, discRow >>
  /\ UNCHANGED << termVars, envVars >>

\* lines 304-309: the Session is closed and forgotten, the widgets relabelled
D_Close ==
  /\ pc = "d_close"
  /\ IF connection # None
       THEN sessions' = Closed(sessions, connection) /\ connection' = None
       ELSE UNCHANGED << sessions, connection >>
  /\ status_label' = "Disconnected"
  /\ btn_text' = "Connect"
  /\ btn_state' = "normal"
  /\ pc' = "d_reset"
  /\ UNCHANGED << args, attempts, exitkind >>
  /\ UNCHANGED << is_running, data_thread, threads, afterq, data_vars,
                  time_label, ts_pending, discRow >>
  /\ UNCHANGED << termVars, envVars >>

\* lines 311-313: every displayed value is reset; disconnect() returns
D_Reset ==
  /\ pc = "d_reset"
  /\ data_vars' = AllPlaceholder
  /\ pc' = "idle"
  /\ UNCHANGED << args, sessions, connection, attempts, exitkind >>
  /\ UNCHANGED << is_running, data_thread, threads, afterq, status_label,
                  btn_text, btn_state, time_label, ts_pending, discRow >>
  /\ UNCHANGED << termVars, envVars >>

\* the event loop runs the oldest pending root.after(0, var.set, value)
AfterCallback ==
  /\ pc = "idle"
  /\ afterq # << >>
  /\ data_vars' = Applied(data_vars, << Head(afterq) >>)
  /\ afterq' = Tail(afterq)
  /\ discRow' = 0
  /\ UNCHANGED << args, pc, sessions, connection, attempts, exitkind >>
  /\ UNCHANGED << is_running, data_thread, threads, status_label, btn_text,
                  btn_state, time_label, ts_pending >>
  /\ UNCHANGED << termVars, envVars >>

\* UpdateTimestamp without the root.after of line 251
UpdateTimestampWithoutRearm ==
  /\ pc = "idle"
  /\ ts_pending > 0
  /\ time_label' = Stamped(time_label)
  /\ ts_pending' = ts_pending - 1
  /\ discRow' = 0
  /\ UNCHANGED << args, pc, sessions, connection, attempts, exitkind >>
  /\ UNCHANGED << is_running, data_thread, threads, afterq, data_vars,
                  status_label, btn_text, btn_state >>
  /\ UNCHANGED << termVars, envVars >>

\* lines 248-251: update_timestamp stamps the label and re-arms itself
UpdateTimestamp ==
  /\ pc = "idle"
  /\ ts_pending > 0
  /\ time_label' = Stamped(time_label)
  /\ ts_pending' = (ts_pending - 1) + 1
  /\ discRow' = 0
  /\ UNCHANGED << args, pc, sessions, connection, attempts, exitkind >>
  /\ UNCHANGED << is_running, data_thread, threads, afterq, data_vars,
                  status_label, btn_text, btn_state >>
  /\ UNCHANGED << termVars, envVars >>

\* line 363: the window is closed; on_closing clears the run-flag
OnClosing ==
  /\ pc = "idle"
  /\ is_running' = FALSE
  /\ discRow' = 0
  /\ pc' = "o_close"
  /\ UNCHANGED << args, sessions, connection, attempts, exitkind >>
  /\ UNCHANGED << data_thread, threads, afterq, data_vars, status_label,
                  btn_text, btn_state, time_label, ts_pending >>
  /\ UNCHANGED << termVars, envVars >>

\* lines 364-366: the Session is closed and the window destroyed, which
\* drops every pending callback
O_Close ==
  /\ pc = "o_close"
  /\ IF connection # None
       THEN sessions' = Closed(sessions, connection)
       ELSE UNCHANGED sessions
  /\ afterq' = << >>
  /\ ts_pending' = 0
  /\ pc' = "destroyed"
  /\ UNCHANGED << args, connection, attempts, exitkind >>
  /\ UNCHANGED << is_running, data_thread, threads, data_vars, status_label,
                  btn_text, btn_state, time_label, discRow >>
  /\ UNCHANGED << termVars, envVars >>

\* line 378: mainloop returns and the process ends with its daemon threads
GuiReturn ==
  /\ pc = "destroyed"
  /\ pc' = "exited"
  /\ exitkind' = "window_closed"
  /\ UNCHANGED << args, sessions, connection, attempts >>
  /\ UNCHANGED << guiVars, termVars, envVars >>

GuiNext ==
  \/ ToggleConnect \/ ToggleDisconnect
  \/ C_Fixed \/ C_FixedCheck \/ C_Auto \/ C_Retry \/ C_Check
  \/ D_Join \/ D_Close \/ D_Reset
  \/ AfterCallback \/ UpdateTimestamp
  \/ OnClosing \/ O_Close \/ GuiReturn

\* ---------------------------------------------------------- specification
Next ==
  \/ Main \/ GuiMode
  \/ TerminalNext
  \/ GuiNext
  \/ WorkerNext
  \/ LinkLost

Spec == Init /\ [][Next]_vars

\* the runs one event longer: they reach the races that take two connection
\* phases and a poll cycle
DeepSpec == DeepInit /\ [][Next]_vars

\* the dashboard driven through its methods as well as through its button
ApiNext == Next \/ CallDisconnect

ApiSpec == Init /\ [][ApiNext]_vars

\* the program started with any flags in any environment
ModeSpec == ModeInit /\ [][Next]_vars

\* the steps of thread t that the scheduler alone decides; W_Return is not
\* among them: a query may never return
WorkerProgress(t) ==
  /\ t \in 1..Len(threads)
  /\ (W_While(t) \/ W_For(t) \/ W_Call(t) \/ W_Sleep(t))

\* Spec with the scheduling the interpreter gives: the UI thread runs a
\* handler it has entered to its end, and every thread that can run does
FairSpec ==
  /\ Spec
  /\ WF_vars(D_Join) /\ WF_vars(D_Close) /\ WF_vars(D_Reset)
  /\ \A t \in 1..Budget : WF_vars(WorkerProgress(t))

\* the steps inside a handler the UI thread has entered
HandlerStep ==
  \/ C_Fixed \/ C_FixedCheck \/ C_Auto \/ C_Retry \/ C_Check
  \/ D_Join \/ D_Close \/ D_Reset
  \/ O_Close \/ GuiReturn

\* a query of thread t returns or raises
QueryEnds(t) == t \in 1..Len(threads) /\ W_Return(t)

\* Spec where, in addition, every handler runs to its end, the event loop
\* runs the callbacks pending for it, and every query comes back
ReturningSpec ==
  /\ Spec
  /\ WF_vars(HandlerStep)
  /\ WF_vars(AfterCallback)
  /\ \A t \in 1..Budget : WF_vars(WorkerProgress(t)) /\ WF_vars(QueryEnds(t))

\* ================================================================== claims

\* the read_data_loop threads with a query in flight
Querying == { t \in 1..Len(threads) : threads[t].pc = "query" }

\* the process has not ended: its threads still run
ProcessLives == pc # "exited"

\* C1: in dashboard mode the polling thread has left its loop before the
\* Session it reads from is closed: no state has a thread still running
\* while the Session it was started for is closed.
C1_PollingStopsBeforeClose ==
  ProcessLives =>
    \A t \in AliveThreads : sessions[threads[t].sess].open

\* C2: once disconnect() has returned, and until the next connect() begins,
\* every data_vars entry is the placeholder "--".
C2_PlaceholdersAfterDisconnect ==
  (pc = "idle" /\ status_label = "Disconnected") => data_vars = AllPlaceholder

\* C3: at most one read_data_loop thread is alive, at most one query is in
\* flight, and a thread only queries the Session it was started for.
C3_OneWorkerOneQuery ==
  ProcessLives =>
    /\ Cardinality(AliveThreads) <= 1
    /\ Cardinality(Querying) <= 1
    /\ \A t \in Querying : threads[t].q = threads[t].sess

\* C4: at most one Session is open (created and not yet closed) at a time.
C4_AtMostOneOpenSession == Cardinality(OpenSessions) <= 1

\* the parameters of the lines of a terminal report, in order
ReportParams == [k \in 1..Len(report) |-> report[k].param]

\* thread t has just left a query (it returned or raised) in this step
LeavesQuery(t) ==
  /\ t \in 1..Len(threads)
  /\ threads[t].pc = "query"
  /\ threads'[t].pc # "query"

\* C5: a query that fails does not abort its cycle: in the dashboard the
\* thread goes on to the next parameter of the same cycle with a reading
\* published for the failed one, and the terminal loop is never left because
\* a query raised.
C5_FailureDoesNotAbortCycle ==
  [][ /\ \A t \in 1..Len(threads) :
           (LeavesQuery(t) /\ pc # "destroyed") =>
             /\ threads'[t].pc = "for"
             /\ threads'[t].i = threads[t].i + 1
             /\ threads'[t].pub = Append(threads[t].pub, Params[threads[t].i])
      /\ (pc = "t_cycle" /\ pc' # "t_cycle" /\ exitkind' # "interrupt") =>
             /\ pc' = "t_sleep"
             /\ Len(report') = Len(report) + 1
    ]_vars

\* the ways terminal_mode ends
TerminalExits ==
  { "connect_failed", "interrupt", "interrupt_uncaught", "error", "crash" }

\* C6: when terminal_mode has ended, or a connect() of the dashboard has
\* failed or raised, no Session is left open.
C6_NoSessionLeftOpen ==
  /\ (pc = "exited" /\ exitkind \in TerminalExits) => OpenSessions = {}
  /\ (pc = "idle" /\ status_label \in { "Failed", "Error" }) => OpenSessions = {}

\* the first obd.OBD call of the phase gave no connected Session
FirstAttemptFailed ==
  \/ attempts[1].sess = None
  \/ ~IsConnected(attempts[1].sess)

\* C8: a connection phase makes at most two obd.OBD calls, the fixed path
\* first and auto-detection second; auto-detection is only attempted when the
\* first call raised or gave a Session that is not connected, and is always
\* attempted when the first call raised.
C8_AtMostTwoAttempts ==
  /\ Len(attempts) <= 2
  /\ Len(attempts) >= 1 => attempts[1].port = "fixed"
  /\ Len(attempts) >= 2 => (attempts[2].port = "auto" /\ FirstAttemptFailed)
  /\ (pc \in { "t_check", "c_check" } /\ Len(attempts) = 1) =>
       attempts[1].sess # None

\* C10: a poll cycle that runs to completion has queried each of the eight
\* parameters once, in the fixed order, and produced one reading for each:
\* the terminal report, and the dashboard thread's queries and publications.
C10_EightReadingsPerCycle ==
  /\ pc = "t_sleep" => ReportParams = Params
  /\ ProcessLives =>
       \A t \in 1..Len(threads) :
         (threads[t].pc = "sleep" /\ threads[t].i > Len(Params)) =>
           (threads[t].log = Params /\ threads[t].pub = Params)

DisconnectPcs == { "d_join", "d_close", "d_reset" }

\* C7: disconnect() clears the run-flag, then waits in the bounded join with
\* the Session still open, then closes and forgets the Session with the
\* displayed values not yet reset, then resets them; and every disconnect()
\* that was begun returns, with self.connection None and every value "--",
\* also when the thread never leaves its query.
C7_DisconnectOrderAndCompletion ==
  /\ [](pc \in DisconnectPcs => ~is_running)
  /\ [](pc \in { "d_join", "d_close" } =>
          (connection # None /\ sessions[connection].open))
  /\ [][ /\ (pc = "d_join" /\ pc' # "d_join") =>
              (pc' = "d_close" /\ JoinReturns)
         /\ (pc = "d_close" /\ pc' # "d_close") =>
              /\ pc' = "d_reset"
              /\ ~sessions'[connection].open
              /\ connection' = None
              /\ data_vars' = data_vars
         /\ (pc = "d_reset" /\ pc' # "d_reset") =>
              /\ pc' = "idle"
              /\ data_vars' = AllPlaceholder
              /\ UNCHANGED << sessions, connection, is_running >>
       ]_vars
  /\ (pc = "d_join") ~>
       (pc = "idle" /\ connection = None /\ data_vars = AllPlaceholder)

\* disconnect() has closed the Session after the join timed out: the thread
\* it waited for is still inside its query
C7_Witness ==
  /\ pc = "d_reset"
  /\ data_thread # None
  /\ threads[data_thread].pc = "query"
  /\ ~sessions[threads[data_thread].sess].open

\* C9: after a direct call of disconnect() has returned, self.connection is
\* None, the run-flag is false and every displayed value is "--"; and a
\* second call in a row changes none of these, nor any Session or widget.
C9_DisconnectIdempotent ==
  /\ []((pc = "idle" /\ discRow >= 1) =>
          (connection = None /\ ~is_running /\ data_vars = AllPlaceholder))
  /\ [][ discRow' >= 2 =>
           UNCHANGED << connection, is_running, data_vars, sessions,
                        status_label, btn_text, btn_state, data_thread >>
       ]_vars

\* two direct calls in a row have returned, the first of them made while a
\* Session was connected
C9_Witness ==
  /\ pc = "idle"
  /\ discRow = 2
  /\ sessions # << >>
  /\ status_label = "Disconnected"

\* the mode the decision table gives for flags and environment a
TableMode(a) ==
  IF a.terminal THEN "terminal"
  ELSE IF a.gui THEN "dashboard"
  ELSE IF a.display /\ a.gui_available THEN "dashboard"
  ELSE "terminal"

\* the positions of the main thread inside the dashboard front-end
DashboardPcs ==
  { "gui_mode", "idle", "c_fixed", "c_fixed_check", "c_auto", "c_retry",
    "c_check", "d_join", "d_close", "d_reset", "o_close", "destroyed" }

\* the ways gui_mode ends
DashboardExits == { "gui_unavailable", "no_display", "window_closed" }

\* C11: for every combination of --terminal, --gui, display and toolkit,
\* main() enters the front-end the decision table names and no other; a
\* dashboard selected without the toolkit ends in the error and never falls
\* back to the terminal front-end.
C11_ModeSelection ==
  /\ pc \in TerminalPcs => TableMode(args) = "terminal"
  /\ pc \in DashboardPcs => TableMode(args) = "dashboard"
  /\ exitkind \in TerminalExits => TableMode(args) = "terminal"
  /\ exitkind \in DashboardExits => TableMode(args) = "dashboard"
  /\ (TableMode(args) = "dashboard" /\ ~args.gui_available) =>
       /\ pc \in { "main", "gui_mode", "exited" }
       /\ exitkind \in { "running", "gui_unavailable" }
  /\ pc # "main" =>
       (pc \in TerminalPcs \cup DashboardPcs \/ pc = "exited")

\* no flag, no display, toolkit installed: the terminal front-end polls
C11_Witness ==
  /\ ~args.terminal /\ ~args.gui /\ ~args.display /\ args.gui_available
  /\ pc = "t_cycle"

\* the strings read_data_loop can format for parameter p
FormattedValues(p) == { FormatValue(p, m) : m \in Magnitudes }

\* the parameter whose query thread t is leaving in this step
LeftParam(t) == Params[threads[t].i]

\* C12: every displayed value is "--", "N/A" or a formatted number of its
\* parameter; while the window exists a response without a value is handed
\* to the event loop as "N/A" and the thread goes on without an exception;
\* and "--" is written by the construction of the dashboard and by
\* disconnect() only, never by the polling thread.
C12_DisplayValues ==
  /\ [](data_vars # << >> =>
          \A p \in ParamSet :
            data_vars[p] \in { Placeholder, NotAvailable } \cup FormattedValues(p))
  /\ [](\A k \in 1..Len(afterq) : afterq[k].value # Placeholder)
  /\ [][ /\ \A t \in 1..Len(threads) :
             (LeavesQuery(t) /\ threads'[t].resp = Absent /\ pc # "destroyed") =>
               /\ threads'[t].pc = "for"
               /\ afterq' = Append(afterq,
                    [param |-> LeftParam(t), value |-> NotAvailable])
         /\ (data_vars # << >> /\ data_vars' # data_vars
               /\ \E p \in ParamSet :
                    data_vars'[p] = Placeholder /\ data_vars[p] # Placeholder) =>
               (pc = "d_reset" /\ pc' = "idle")
         /\ (data_vars = << >> /\ data_vars' # data_vars) =>
               (pc = "gui_mode" /\ data_vars' = AllPlaceholder)
       ]_vars

\* the dashboard shows "N/A" for a parameter whose response had no value
C12_Witness ==
  /\ pc = "idle"
  /\ \E p \in ParamSet : data_vars[p] = NotAvailable

\* thread t takes a step of read_data_loop
Steps(t) == threads'[t] # threads[t]

\* C13: the polling thread reads the run-flag at the top of every iteration
\* and in front of every query: a thread only goes on to a query from a
\* flag check that found the flag set, a check that finds it cleared leads
\* to the end of the cycle or of the loop; and when the flag stays cleared
\* and every query returns, no thread is left running.
C13_CooperativeCancellation ==
  /\ [][ \A t \in 1..Len(threads) :
           /\ (threads'[t].pc = "call" /\ threads[t].pc # "call") =>
                (threads[t].pc = "for" /\ is_running)
           /\ (threads'[t].pc = "query" /\ threads[t].pc # "query") =>
                threads[t].pc = "call"
           /\ (threads'[t].pc = "for" /\ threads[t].pc = "while") => is_running
           /\ (Steps(t) /\ threads[t].pc = "for" /\ ~is_running) =>
                threads'[t].pc = "sleep"
           /\ (Steps(t) /\ threads[t].pc = "while" /\ ~is_running) =>
                threads'[t].pc = "done"
       ]_vars
  /\ (<>[](~is_running)) => <>[](pc = "exited" \/ AliveThreads = {})

\* a cycle cut short: the flag check in front of the second or a later query
\* found the flag cleared
C13_Witness ==
  /\ ~is_running
  /\ pc # "exited"
  /\ \E t \in 1..Len(threads) :
       /\ threads[t].pc = "sleep"
       /\ threads[t].i > 1
       /\ threads[t].i <= Len(Params)

\* C14: a press of the connect button runs disconnect() when the button is
\* labelled "Disconnect" and connect() when it is labelled "Connect".
C14_ButtonMatchesLabel ==
  [][ (pc = "idle" /\ pc' \in { "d_join", "c_fixed" }) =>
        /\ btn_text = "Disconnect" => pc' = "d_join"
        /\ btn_text = "Connect" => pc' = "c_fixed"
    ]_vars

\* C15: every write to data_vars is a step of the UI thread: the polling
\* thread only appends to the pending callbacks, which the event loop runs
\* between handlers (or root.update() inside connect()); inside disconnect()
\* the only write is its own reset.
C15_WritesOnUiThread ==
  [][ /\ data_vars' # data_vars =>
           /\ threads' = threads
           /\ pc \in { "gui_mode", "idle", "d_reset" }
           /\ pc = "idle" =>
                /\ afterq # << >>
                /\ \/ /\ pc' = "idle"
                      /\ data_vars' = Applied(data_vars, << Head(afterq) >>)
                      /\ afterq' = Tail(afterq)
                   \/ /\ pc' = "c_fixed"
                      /\ data_vars' = Applied(data_vars, afterq)
                      /\ afterq' = << >>
           /\ pc = "d_reset" => data_vars' = AllPlaceholder
      /\ threads' # threads => data_vars' = data_vars
      /\ \A t \in 1..Len(threads) :
           (LeavesQuery(t) /\ threads'[t].pc = "for") =>
             /\ Len(afterq') = Len(afterq) + 1
             /\ afterq'[Len(afterq')].param = LeftParam(t)
    ]_vars

\* a value published by the thread is still pending while disconnect() runs
C15_Witness ==
  /\ pc \in DisconnectPcs
  /\ afterq # << >>
  /\ data_thread # None

\* the positions of the UI thread while the window exists
WindowPcs == DashboardPcs \ { "gui_mode", "destroyed" }

\* C16: while the window exists exactly one update_timestamp callback is
\* pending, in every connection state; only the construction of the dashboard
\* arms it and only the destruction of the window drops it; and a tick
\* changes neither a Session, self.connection, the run-flag nor a displayed
\* value.
C16_TimestampTimerIndependent ==
  /\ [](pc \in WindowPcs => ts_pending = 1)
  /\ [][ /\ ts_pending' # ts_pending =>
             \/ pc = "gui_mode" /\ ts_pending' = 1
             \/ pc = "o_close" /\ pc' = "destroyed"
         /\ (time_label' # time_label /\ pc # "gui_mode") =>
             /\ UNCHANGED << sessions, connection, is_running, threads >>
             /\ pc' = "idle" => UNCHANGED << data_vars, afterq, status_label >>
       ]_vars

\* the timer has ticked and is pending again while the dashboard is connected
\* and polling
C16_Witness ==
  /\ pc = "idle"
  /\ status_label = "Connected"
  /\ is_running
  /\ time_label = 2
  /\ ts_pending = 1

\* C17: every query of the polling thread is begun on a Session that is
\* open at that moment.
C17_QueryOnOpenSession ==
  [][ \A t \in 1..Len(threads) :
        (threads'[t].pc = "query" /\ threads[t].pc # "query") =>
          sessions[threads'[t].q].open
    ]_vars

\* C18: the run-flag is only set while self.connection names a Session and
\* self.data_thread is a thread started for that Session; inside
\* disconnect() and on_closing() the flag is already cleared when the
\* Session is closed or forgotten.
C18_RunFlagImpliesWorker ==
  /\ is_running =>
       /\ connection # None
       /\ IF data_thread = None THEN FALSE
          ELSE threads[data_thread].sess = connection
  /\ pc \in DisconnectPcs \cup { "o_close" } => ~is_running

\* the positions of the UI thread inside connect()
ConnectPcs == { "c_fixed", "c_fixed_check", "c_auto", "c_retry", "c_check" }

\* C19: the connect button is disabled exactly while connect() runs; when
\* connect() returns, connected, failed or with the error caught, the button
\* is enabled; and every connect() that was begun returns.
C19_ButtonReenabled ==
  /\ [](pc \in ConnectPcs => btn_state = "disabled")
  /\ [](pc = "idle" => btn_state = "normal")
  /\ [][ (pc \in ConnectPcs /\ pc' \notin ConnectPcs) =>
           /\ pc' = "idle"
           /\ btn_state' = "normal"
           /\ status_label' \in { "Connected", "Failed", "Error" }
       ]_vars
  /\ (pc \in ConnectPcs) ~> (pc = "idle" /\ btn_state = "normal")

\* connect() has returned through its exception handler
C19_Witness ==
  /\ pc = "idle"
  /\ status_label = "Error"
  /\ btn_state = "normal"

====
